---- MODULE Spec2Model ----
(***************************************************************************)
(* A model of bocco_mcp_server.py: the BoccoEmoAPI client (token           *)
(* lifecycle, room directory, message/motion posts) and the call_tool      *)
(* dispatcher that runs every tool invocation inside a freshly entered     *)
(* client.                                                                 *)
(*                                                                         *)
(* Strings that the code inspects (room names, the room_name argument) are *)
(* sequences of characters, so that str.lower() and the substring test     *)
(* `in` are computed.  Times are whole minutes.  A text result is a record *)
(* naming the f-string that produced it and the values it interpolates.    *)
(***************************************************************************)
EXTENDS Integers, Sequences, FiniteSets, TLC

\* ------------------------------------------------------------------ bounds
MaxRooms == 2      \* longest room sequence a listing response carries
MaxTime == 2       \* the clock runs from 0 to MaxTime
MaxRoomsApi == 1   \* longest room sequence listed to the client driven directly

\* --------------------------------------------------------------- constants
Margin == 5              \* timedelta(minutes=5)
DefaultExpiresIn == 60   \* result.get("expires_in", 3600): 3600 s, in minutes

\* Python's None, and a key that a dict does not hold.
None == "None"
Absent == "Absent"

\* None where the value, when there is one, is a string of characters.
NoneStr == <<None>>

\* An optional number (a datetime in minutes, a JSON number that may be
\* missing): the empty sequence when there is none.
NoInt == <<>>
SomeInt(n) == <<n>>

\* ----------------------------------------------------------------- strings
\* The two katakana of the marker, each one character.
KE == "KATAKANA_E"
KMO == "KATAKANA_MO"

\* str.lower() on one character.
LowerChar(c) ==
  CASE c = "E" -> "e"
    [] c = "M" -> "m"
    [] c = "O" -> "o"
    [] c = "K" -> "k"
    [] c = "I" -> "i"
    [] c = "T" -> "t"
    [] OTHER -> c

\* str.lower()
Lower(s) == [i \in 1..Len(s) |-> LowerChar(s[i])]

\* Python's `sub in s` on strings.
Contains(s, sub) ==
  \E i \in 0..(Len(s) - Len(sub)) :
    \A j \in 1..Len(sub) : s[i + j] = sub[j]

\* The marker test of fetch_rooms: "エモ" in room_name or "emo" in room_name.lower()
HasMarker(room_name) ==
  \/ Contains(room_name, <<KE, KMO>>)
  \/ Contains(Lower(room_name), <<"e", "m", "o">>)

\* The match test of call_tool: room_name.lower() in room.get("name", "").lower()
NameMatches(room_name, room) == Contains(Lower(room.name), Lower(room_name))

\* Python truthiness of an Optional[str] held as an atom (uuid, token).
Truthy(v) == v # None /\ v # ""

\* Python truthiness of an Optional[str] held as a string of characters.
TruthyStr(s) == s # NoneStr /\ s # <<>>

\* ------------------------------------------------------------ remote data
\* The rooms the remote API may list: {uuid, name} objects.
RoomCatalogue ==
  { [name |-> <<KE, KMO>>, uuid |-> "A"],
    [name |-> <<"O", "f">>, uuid |-> "B"],
    [name |-> <<"K", "i", "t">>, uuid |-> "C"],
    [name |-> <<"k", "i", "t", "E", "M", "O">>, uuid |-> "D"] }

RECURSIVE SeqsUpTo(_, _)
SeqsUpTo(S, n) ==
  IF n = 0 THEN {<<>>}
  ELSE LET shorter == SeqsUpTo(S, n - 1)
       IN shorter \cup {Append(q, x) : q \in {r \in shorter : Len(r) = n - 1}, x \in S}

RoomLists == SeqsUpTo(RoomCatalogue, MaxRooms)

\* Responses of POST /oauth/token/refresh.  "error" is a transport failure
\* (session.post or response.json() raising).
TokenResponses ==
  { [kind |-> "json", status |-> 200, access_token |-> t, expires_in |-> e] :
      t \in {"T1", "T2"}, e \in {SomeInt(3), SomeInt(6), NoInt} }
  \cup { [kind |-> "json", status |-> 200, access_token |-> Absent, expires_in |-> NoInt],
         [kind |-> "json", status |-> 401, access_token |-> Absent, expires_in |-> NoInt],
         [kind |-> "error", status |-> 0, access_token |-> Absent, expires_in |-> NoInt] }

\* Responses of GET /v1/rooms: a list, a {"rooms": [...]} wrapper, some other
\* JSON value, a non-200 status, or a transport failure.
RoomsResponses ==
  { [kind |-> "json", status |-> 200, form |-> f, rooms |-> rs] :
      f \in {"list", "dict"}, rs \in RoomLists }
  \cup { [kind |-> "json", status |-> 200, form |-> "other", rooms |-> <<>>],
         [kind |-> "json", status |-> 500, form |-> "list", rooms |-> <<>>],
         [kind |-> "error", status |-> 0, form |-> "list", rooms |-> <<>>] }

\* Responses of the two POST endpoints: any status with a JSON body, or a
\* failure raised by session.post / response.json().
PostResponses ==
  { [kind |-> "json", status |-> s] : s \in {200, 404} }
  \cup { [kind |-> "error", status |-> 0] }

\* PREDEFINED_MOTIONS.keys(), in the dict's order.
PREDEFINED_MOTIONS == <<"head_shake", "simple_nod">>

MotionKeys == {PREDEFINED_MOTIONS[i] : i \in 1..Len(PREDEFINED_MOTIONS)}

\* ------------------------------------------------------------- BoccoEmoAPI
\* BoccoEmoAPI.__init__
NewApi ==
  [access_token |-> None, token_expires_at |-> NoInt, session |-> None,
   rooms |-> <<>>, default_room_id |-> None]

\* One HTTP request put on the wire.
Request(kind, room) == [kind |-> kind, room |-> room]

\* The messages of the exceptions the client raises.
TokenFailed == "access token could not be obtained"
NoTargetRoom == "no destination room given"
TransportError == "transport error"

\* (mutant of get_access_token: a failed refresh also drops the token held)
get_access_token_clears_on_failure(a, resp, t) ==
  IF resp.kind = "json" /\ resp.status = 200 /\ resp.access_token # Absent
  THEN [api |-> [a EXCEPT !.access_token = resp.access_token,
                          !.token_expires_at =
                             SomeInt(t + (IF resp.expires_in = NoInt
                                          THEN DefaultExpiresIn
                                          ELSE resp.expires_in[1]))],
        ok |-> TRUE, sent |-> <<Request("refresh", None)>>]
  ELSE [api |-> [a EXCEPT !.access_token = None, !.token_expires_at = NoInt],
        ok |-> FALSE, sent |-> <<Request("refresh", None)>>]

\* get_access_token: one POST; on 200 with an access_token the token and its
\* expiry are replaced, otherwise (and on any exception) False.
get_access_token(a, resp, t) ==
  IF resp.kind = "json" /\ resp.status = 200 /\ resp.access_token # Absent
  THEN [api |-> [a EXCEPT !.access_token = resp.access_token,
                          !.token_expires_at =
                             SomeInt(t + (IF resp.expires_in = NoInt
                                          THEN DefaultExpiresIn
                                          ELSE resp.expires_in[1]))],
        ok |-> TRUE, sent |-> <<Request("refresh", None)>>]
  ELSE [api |-> a, ok |-> FALSE, sent |-> <<Request("refresh", None)>>]

\* (mutant of ensure_valid_token: the 5-minute margin is dropped)
ensure_valid_token_no_margin(a, resp, t) ==
  IF \/ ~Truthy(a.access_token)
     \/ a.token_expires_at = NoInt
     \/ t > a.token_expires_at[1]
  THEN get_access_token(a, resp, t)
  ELSE [api |-> a, ok |-> TRUE, sent |-> <<>>]

\* ensure_valid_token: refresh when there is no token, no expiry, or the
\* clock is past expiry minus the margin.
ensure_valid_token(a, resp, t) ==
  IF \/ ~Truthy(a.access_token)
     \/ a.token_expires_at = NoInt
     \/ t > a.token_expires_at[1] - Margin
  THEN get_access_token(a, resp, t)
  ELSE [api |-> a, ok |-> TRUE, sent |-> <<>>]

\* The index at which the marker loop of fetch_rooms stops.
FirstMarked(rooms) ==
  CHOOSE i \in 1..Len(rooms) :
    /\ HasMarker(rooms[i].name)
    /\ \A j \in 1..(i - 1) : ~HasMarker(rooms[j].name)

\* (mutant of SelectDefault: the marker is not looked for)
SelectDefaultFirstRoom(rooms, old) ==
  IF rooms = <<>> THEN old ELSE rooms[1].uuid

\* The default-room rule of fetch_rooms: the first room whose name carries
\* the marker, else the first room; `old` stays when the list is empty.
SelectDefault(rooms, old) ==
  IF rooms = <<>> THEN old
  ELSE IF \E i \in 1..Len(rooms) : HasMarker(rooms[i].name)
       THEN rooms[FirstMarked(rooms)].uuid
       ELSE rooms[1].uuid

\* fetch_rooms: ensure_valid_token, then one GET; a 200 response carrying a
\* list (bare or wrapped) replaces rooms and sets the default room.
fetch_rooms(a, tokResp, roomsResp, t) ==
  LET e == ensure_valid_token(a, tokResp, t)
      wire == e.sent \o <<Request("rooms", None)>>
  IN IF ~e.ok
     THEN [api |-> e.api, ok |-> FALSE, sent |-> e.sent]
     ELSE IF roomsResp.kind = "json" /\ roomsResp.status = 200
                                     /\ roomsResp.form \in {"list", "dict"}
          THEN [api |-> [e.api EXCEPT
                           !.rooms = roomsResp.rooms,
                           !.default_room_id =
                              SelectDefault(roomsResp.rooms, e.api.default_room_id)],
                ok |-> TRUE, sent |-> wire]
          ELSE [api |-> e.api, ok |-> FALSE, sent |-> wire]

\* What a send_* call hands back: the exception it raised (None when it
\* returned), the dict it returned, and the requests it sent.
NoException == [type |-> None, msg |-> None]
Raise(type, msg) == [type |-> type, msg |-> msg]
NoReturn == [status |-> 0, room_id |-> None]

\* The body shared by send_message and send_motion, which differ in the
\* endpoint: ensure_valid_token, then the target room, then one POST.
Send(endpoint, a, room_id, tokResp, postResp, t) ==
  LET e == ensure_valid_token(a, tokResp, t)
      target_room == IF Truthy(room_id) THEN room_id ELSE e.api.default_room_id
      wire == e.sent \o <<Request(endpoint, target_room)>>
  IN IF ~e.ok
     THEN [api |-> e.api, raised |-> Raise("Exception", TokenFailed),
           ret |-> NoReturn, sent |-> e.sent]
     ELSE IF ~Truthy(target_room)
          THEN [api |-> e.api, raised |-> Raise("Exception", NoTargetRoom),
                ret |-> NoReturn, sent |-> e.sent]
          ELSE IF postResp.kind = "error"
               THEN [api |-> e.api, raised |-> Raise("ClientError", TransportError),
                     ret |-> NoReturn, sent |-> wire]
               ELSE [api |-> e.api, raised |-> NoException,
                     ret |-> [status |-> postResp.status, room_id |-> target_room],
                     sent |-> wire]

\* (mutant of send_message: the target room is not checked before the POST)
send_message_no_room_check(a, room_id, tokResp, postResp, t) ==
  LET e == ensure_valid_token(a, tokResp, t)
      target_room == IF Truthy(room_id) THEN room_id ELSE e.api.default_room_id
      wire == e.sent \o <<Request("message", target_room)>>
  IN IF ~e.ok
     THEN [api |-> e.api, raised |-> Raise("Exception", TokenFailed),
           ret |-> NoReturn, sent |-> e.sent]
     ELSE IF postResp.kind = "error"
          THEN [api |-> e.api, raised |-> Raise("ClientError", TransportError),
                ret |-> NoReturn, sent |-> wire]
          ELSE [api |-> e.api, raised |-> NoException,
                ret |-> [status |-> postResp.status, room_id |-> target_room],
                sent |-> wire]

\* send_message
send_message(a, room_id, tokResp, postResp, t) ==
  Send("message", a, room_id, tokResp, postResp, t)

\* send_motion
send_motion(a, room_id, tokResp, postResp, t) ==
  Send("motion", a, room_id, tokResp, postResp, t)

\* get_rooms_info: fetch when the directory is empty, then the snapshot.
get_rooms_info(a, tokResp, roomsResp, t) ==
  LET f == IF a.rooms = <<>>
           THEN fetch_rooms(a, tokResp, roomsResp, t)
           ELSE [api |-> a, ok |-> TRUE, sent |-> <<>>]
  IN [api |-> f.api,
      ret |-> [status |-> 200, rooms |-> f.api.rooms,
               default_room_id |-> f.api.default_room_id,
               room_count |-> Len(f.api.rooms)],
      sent |-> f.sent]

\* (mutant of initialize: the result of get_access_token is not looked at)
initialize_ignores_failure(a, tokResp, tokResp2, roomsResp, t) ==
  LET g == get_access_token(a, tokResp, t)
      f == fetch_rooms(g.api, tokResp2, roomsResp, t)
  IN [api |-> f.api, raised |-> NoException, sent |-> g.sent \o f.sent]

\* initialize, as __aenter__ awaits it: get_access_token, an exception when
\* it fails, then fetch_rooms (whose result is not looked at).
initialize(a, tokResp, tokResp2, roomsResp, t) ==
  LET g == get_access_token(a, tokResp, t)
      f == fetch_rooms(g.api, tokResp2, roomsResp, t)
  IN IF ~g.ok
     THEN [api |-> g.api, raised |-> Raise("Exception", TokenFailed), sent |-> g.sent]
     ELSE [api |-> f.api, raised |-> NoException, sent |-> g.sent \o f.sent]

\* ---------------------------------------------------------------- call_tool
ToolNames ==
  {"bocco_send_message", "bocco_send_motion", "bocco_custom_motion",
   "bocco_get_rooms", "bocco_list_rooms"}

\* The room_name arguments tried: "KIt", "z", "" and no room_name.
QueryNames == {<<"K", "I", "t">>, <<"z">>, <<>>, NoneStr}

NoArgs ==
  [message |-> Absent, motion_name |-> Absent, motion_json |-> Absent,
   room_name |-> NoneStr]

\* The argument dicts tried for each tool name: the required key with each
\* room_name, and the dict without the required key.
ArgumentsOf(name) ==
  CASE name = "bocco_send_message" ->
         {[NoArgs EXCEPT !.message = "hello", !.room_name = r] : r \in QueryNames}
           \cup {NoArgs}
    [] name = "bocco_send_motion" ->
         {[NoArgs EXCEPT !.motion_name = "head_shake", !.room_name = r] :
            r \in QueryNames}
           \cup {[NoArgs EXCEPT !.motion_name = "dance", !.room_name = r] :
                   r \in {<<"z">>, NoneStr}}
           \cup {[NoArgs EXCEPT !.motion_name = "simple_nod"], NoArgs}
    [] name = "bocco_custom_motion" ->
         {[NoArgs EXCEPT !.motion_json = "document", !.room_name = r] : r \in QueryNames}
           \cup {NoArgs}
    [] OTHER -> {NoArgs}

\* The text a tool invocation returns, as the f-string that made it and the
\* values it interpolates.
NoResult == [kind |-> "none"]

\* What the body of one branch of call_tool leaves: the client, the text it
\* returned (NoResult when it raised), the exception, the requests sent.
Returned(a, text, wire) ==
  [api |-> a, result |-> text, raised |-> NoException, sent |-> wire]

Raised(a, e, wire) ==
  [api |-> a, result |-> NoResult, raised |-> e, sent |-> wire]

\* (mutant of ResolveRoom: the loop has no break, so the last match wins)
ResolveRoomLastMatch(rooms, room_name) ==
  IF \E i \in 1..Len(rooms) : NameMatches(room_name, rooms[i])
  THEN rooms[CHOOSE i \in 1..Len(rooms) :
               /\ NameMatches(room_name, rooms[i])
               /\ \A j \in (i + 1)..Len(rooms) : ~NameMatches(room_name, rooms[j])].uuid
  ELSE None

\* The room look-up of the three sending branches: the uuid of the first
\* room whose lowered name contains the lowered room_name, else None.
ResolveRoom(rooms, room_name) ==
  IF \E i \in 1..Len(rooms) : NameMatches(room_name, rooms[i])
  THEN rooms[CHOOSE i \in 1..Len(rooms) :
               /\ NameMatches(room_name, rooms[i])
               /\ \A j \in 1..(i - 1) : ~NameMatches(room_name, rooms[j])].uuid
  ELSE None

\* [r.get('name') for r in api.rooms if isinstance(r, dict)]
RoomNames(rooms) == [i \in 1..Len(rooms) |-> rooms[i].name]

\* The name reported for the room used: that of the first room with the
\* uuid the client targeted.
DefaultRoomLabel == <<"default room">>

UsedRoomName(rooms, room_id) ==
  IF Truthy(room_id) /\ \E i \in 1..Len(rooms) : rooms[i].uuid = room_id
  THEN rooms[CHOOSE i \in 1..Len(rooms) :
               /\ rooms[i].uuid = room_id
               /\ \A j \in 1..(i - 1) : rooms[j].uuid # room_id].name
  ELSE DefaultRoomLabel

\* The branch name == "bocco_send_message".
CallSendMessage(a, arguments, tokResp, postResp, t) ==
  LET room_name == arguments.room_name
      room_id == IF TruthyStr(room_name) THEN ResolveRoom(a.rooms, room_name) ELSE None
      r == send_message(a, room_id, tokResp, postResp, t)
  IN IF arguments.message = Absent
     THEN Raised(a, Raise("KeyError", "message"), <<>>)
     ELSE IF TruthyStr(room_name) /\ ~Truthy(room_id)
          THEN Returned(a, [kind |-> "room_not_found", room_name |-> room_name,
                            lists_rooms |-> TRUE, available |-> RoomNames(a.rooms)],
                        <<>>)
          ELSE IF r.raised # NoException
               THEN Raised(r.api, r.raised, r.sent)
               ELSE Returned(r.api,
                             [kind |-> "message_sent", message |-> arguments.message,
                              used_room_name |-> UsedRoomName(r.api.rooms, r.ret.room_id),
                              status |-> r.ret.status],
                             r.sent)

\* (mutant of CallSendMotion: the motion name is not checked against the
\* catalog before the motion is sent)
CallSendMotionNoNameCheck(a, arguments, tokResp, postResp, t) ==
  LET room_name == arguments.room_name
      room_id == IF TruthyStr(room_name) THEN ResolveRoom(a.rooms, room_name) ELSE None
      r == send_motion(a, room_id, tokResp, postResp, t)
  IN IF arguments.motion_name = Absent
     THEN Raised(a, Raise("KeyError", "motion_name"), <<>>)
     ELSE IF TruthyStr(room_name) /\ ~Truthy(room_id)
          THEN Returned(a, [kind |-> "room_not_found", room_name |-> room_name,
                            lists_rooms |-> FALSE, available |-> <<>>],
                        <<>>)
          ELSE IF r.raised # NoException
               THEN Raised(r.api, r.raised, r.sent)
               ELSE Returned(r.api,
                             [kind |-> "motion_sent",
                              motion_name |-> arguments.motion_name,
                              used_room_name |->
                                 UsedRoomName(r.api.rooms, r.ret.room_id),
                              status |-> r.ret.status],
                             r.sent)

\* The branch name == "bocco_send_motion".
CallSendMotion(a, arguments, tokResp, postResp, t) ==
  LET room_name == arguments.room_name
      room_id == IF TruthyStr(room_name) THEN ResolveRoom(a.rooms, room_name) ELSE None
      r == send_motion(a, room_id, tokResp, postResp, t)
  IN IF arguments.motion_name = Absent
     THEN Raised(a, Raise("KeyError", "motion_name"), <<>>)
     ELSE IF arguments.motion_name \notin MotionKeys
          THEN Returned(a, [kind |-> "unknown_motion",
                            motion_name |-> arguments.motion_name,
                            available |-> PREDEFINED_MOTIONS],
                        <<>>)
          ELSE IF TruthyStr(room_name) /\ ~Truthy(room_id)
               THEN Returned(a, [kind |-> "room_not_found", room_name |-> room_name,
                                 lists_rooms |-> FALSE, available |-> <<>>],
                             <<>>)
               ELSE IF r.raised # NoException
                    THEN Raised(r.api, r.raised, r.sent)
                    ELSE Returned(r.api,
                                  [kind |-> "motion_sent",
                                   motion_name |-> arguments.motion_name,
                                   used_room_name |->
                                      UsedRoomName(r.api.rooms, r.ret.room_id),
                                   status |-> r.ret.status],
                                  r.sent)

\* The branch name == "bocco_custom_motion".
CallCustomMotion(a, arguments, tokResp, postResp, t) ==
  LET room_name == arguments.room_name
      room_id == IF TruthyStr(room_name) THEN ResolveRoom(a.rooms, room_name) ELSE None
      r == send_motion(a, room_id, tokResp, postResp, t)
  IN IF arguments.motion_json = Absent
     THEN Raised(a, Raise("KeyError", "motion_json"), <<>>)
     ELSE IF TruthyStr(room_name) /\ ~Truthy(room_id)
          THEN Returned(a, [kind |-> "room_not_found", room_name |-> room_name,
                            lists_rooms |-> FALSE, available |-> <<>>],
                        <<>>)
          ELSE IF r.raised # NoException
               THEN Raised(r.api, r.raised, r.sent)
               ELSE Returned(r.api,
                             [kind |-> "custom_motion_sent", status |-> r.ret.status],
                             r.sent)

\* The branch name == "bocco_get_rooms".
CallGetRooms(a, tokResp, roomsResp, t) ==
  LET r == get_rooms_info(a, tokResp, roomsResp, t)
  IN Returned(r.api, [kind |-> "rooms_info", data |-> r.ret], r.sent)

\* The branch name == "bocco_list_rooms": one numbered line per room, the
\* default room marked, then the count and the default room's id.
CallListRooms(a, tokResp, roomsResp, t) ==
  LET r == get_rooms_info(a, tokResp, roomsResp, t)
      rooms == r.ret.rooms
  IN IF rooms = <<>>
     THEN Returned(r.api, [kind |-> "no_rooms"], r.sent)
     ELSE Returned(r.api,
                   [kind |-> "rooms_listing",
                    lines |-> [i \in 1..Len(rooms) |->
                                 [is_default |-> rooms[i].uuid = r.ret.default_room_id,
                                  index |-> i, name |-> rooms[i].name,
                                  uuid |-> rooms[i].uuid]],
                    room_count |-> r.ret.room_count,
                    default_room_id |-> r.ret.default_room_id],
                   r.sent)

\* The final else: an unknown tool name.
CallUnknown(a, name) ==
  Returned(a, [kind |-> "unknown_tool", name |-> name], <<>>)

\* (mutant of Catches: the clause names the client's own exception only)
CatchesOnlyPlainException(e) == e.type = "Exception"

\* `except Exception`: the classes it catches.
Catches(e) == e.type \in {"Exception", "KeyError", "ClientError"}

\* ------------------------------------------------------------------- state
VARIABLES
  pc,        \* where the current call_tool invocation stands
  tool,      \* its name argument, from the point where call_tool reads it
  args,      \* its arguments dict, likewise
  api,       \* the BoccoEmoAPI object in use
  now,       \* datetime.now(), in minutes since the invocation started
  sent,      \* the HTTP requests the current invocation has sent, in order
  result,    \* the text call_tool returned
  exc,       \* the exception in flight inside call_tool
  call       \* for the client driven directly: the last method call

vars == <<pc, tool, args, api, now, sent, result, exc, call>>

\* A method call on the client: the method, the token fields and default
\* room it found, the clock, its room_id argument, the refresh response it
\* got (NoResponse when it sent no refresh), what it returned or raised, and
\* the requests it sent.
PreOf(a) ==
  [access_token |-> a.access_token, token_expires_at |-> a.token_expires_at,
   default_room_id |-> a.default_room_id]

NoResponse ==
  [kind |-> "none", status |-> 0, access_token |-> Absent, expires_in |-> NoInt]

Refreshed(wire) == \E i \in 1..Len(wire) : wire[i].kind = "refresh"

Called(op, a, t, room_id, tokResp, ok, raised, wire) ==
  [op |-> op, pre |-> PreOf(a), at |-> t, room_id |-> room_id,
   tokResp |-> IF Refreshed(wire) THEN tokResp ELSE NoResponse,
   ok |-> ok, raised |-> raised, sent |-> wire]

NoCall == Called("none", NewApi, 0, None, NoResponse, TRUE, NoException, <<>>)

Init ==
  /\ pc = "idle"
  /\ tool = None
  /\ args = NoArgs
  /\ api = NewApi
  /\ now = 0
  /\ sent = <<>>
  /\ result = NoResult
  /\ exc = NoException
  /\ call = NoCall

\* The host calls a tool: call_tool starts and constructs its own client.
\* Nothing of an earlier invocation is kept, so the clock is counted from the
\* start of this one.
Invoke ==
  /\ pc \in {"idle", "done"}
  /\ tool' = None
  /\ args' = NoArgs
  /\ api' = NewApi
  /\ now' = 0
  /\ sent' = <<>>
  /\ result' = NoResult
  /\ exc' = NoException
  /\ pc' = "aenter"
  /\ UNCHANGED call

\* The responses worth trying for a request: all of them when the request
\* is sent, one when it is not (a response nobody waits for changes nothing).
TokenResponsesFor(a, t) ==
  IF \E r \in TokenResponses : ensure_valid_token(a, r, t).sent # <<>>
  THEN TokenResponses
  ELSE {CHOOSE r \in TokenResponses : TRUE}

RoomsResponsesFor(name, a) ==
  IF name \in {"bocco_get_rooms", "bocco_list_rooms"} /\ a.rooms = <<>>
  THEN RoomsResponses
  ELSE {CHOOSE r \in RoomsResponses : TRUE}

PostResponsesFor(name) ==
  IF name \in {"bocco_send_message", "bocco_send_motion", "bocco_custom_motion"}
  THEN PostResponses
  ELSE {CHOOSE r \in PostResponses : TRUE}

\* __aenter__: the session is created, then initialize runs.  When
\* initialize raises, __aenter__ raises and the with statement never calls
\* __aexit__: control goes to the except clause of call_tool.
AEnter ==
  /\ pc = "aenter"
  /\ LET opened == [api EXCEPT !.session = "open"]
     IN \E tokResp \in TokenResponses :
          \E tokResp2 \in TokenResponsesFor(get_access_token(opened, tokResp, now).api, now) :
            \E roomsResp \in RoomsResponses :
              LET i == initialize(opened, tokResp, tokResp2, roomsResp, now)
              IN /\ api' = i.api
                 /\ sent' = sent \o i.sent
                 /\ exc' = i.raised
                 /\ pc' = IF i.raised # NoException THEN "except" ELSE "body"
  /\ UNCHANGED <<tool, args, now, result, call>>

\* The branch of call_tool chosen by name, run to its return or raise.
Branch(name, a, arguments, tokResp, roomsResp, postResp, t) ==
  CASE name = "bocco_send_message" -> CallSendMessage(a, arguments, tokResp, postResp, t)
    [] name = "bocco_send_motion" -> CallSendMotion(a, arguments, tokResp, postResp, t)
    [] name = "bocco_custom_motion" -> CallCustomMotion(a, arguments, tokResp, postResp, t)
    [] name = "bocco_get_rooms" -> CallGetRooms(a, tokResp, roomsResp, t)
    [] name = "bocco_list_rooms" -> CallListRooms(a, tokResp, roomsResp, t)
    [] OTHER -> CallUnknown(a, name)

\* The body of the with statement, for any tool name and arguments.
Body ==
  /\ pc = "body"
  /\ \E name \in ToolNames \cup {"bocco_dance"} :
       \E arguments \in ArgumentsOf(name) :
         \E tokResp \in TokenResponsesFor(api, now) :
           \E roomsResp \in RoomsResponsesFor(name, api) :
             \E postResp \in PostResponsesFor(name) :
               LET b == Branch(name, api, arguments, tokResp, roomsResp, postResp, now)
               IN /\ tool' = name
                  /\ args' = arguments
                  /\ api' = b.api
                  /\ sent' = sent \o b.sent
                  /\ result' = b.result
                  /\ exc' = b.raised
  /\ pc' = "aexit"
  /\ UNCHANGED <<now, call>>

\* __aexit__, on a return from the body and on an exception in it alike:
\* the session is closed; an exception goes on to the except clause.
AExit ==
  /\ pc = "aexit"
  /\ api' = [api EXCEPT !.session = IF api.session = "open" THEN "closed" ELSE @]
  /\ pc' = IF exc # NoException THEN "except" ELSE "done"
  /\ UNCHANGED <<tool, args, now, sent, result, exc, call>>

\* except Exception as e: the generic error text is returned.
Except ==
  /\ pc = "except"
  /\ IF Catches(exc)
     THEN /\ result' = [kind |-> "error", msg |-> exc.msg]
          /\ pc' = "done"
     ELSE /\ result' = result
          /\ pc' = "escaped"
  /\ exc' = NoException
  /\ UNCHANGED <<tool, args, api, now, sent, call>>

\* Time passes between __aenter__, which reads the clock at the start of the
\* invocation, and the body, which reads it again.
Tick ==
  /\ pc = "body"
  /\ now < MaxTime
  /\ now' = now + 1
  /\ UNCHANGED <<pc, tool, args, api, sent, result, exc, call>>

Next == Invoke \/ AEnter \/ Body \/ AExit \/ Except \/ Tick

Spec == Init /\ [][Next]_vars

\* ------------------------------------------- the client driven directly
\* The methods of BoccoEmoAPI called one after another, in any order, on one
\* client whose session has been opened (line 38), with any responses; `call`
\* holds the call that has just returned or raised.
InitApi ==
  /\ pc = "api"
  /\ tool = None
  /\ args = NoArgs
  /\ api = [NewApi EXCEPT !.session = "open"]
  /\ now = 0
  /\ sent = <<>>
  /\ result = NoResult
  /\ exc = NoException
  /\ call = NoCall

ApiRoomsResponses == {r \in RoomsResponses : Len(r.rooms) <= MaxRoomsApi}

ApiEnsureValidToken ==
  /\ pc = "api"
  /\ pc' = "api_returned"
  /\ \E tokResp \in TokenResponsesFor(api, now) :
       LET e == ensure_valid_token(api, tokResp, now)
       IN /\ api' = e.api
          /\ call' = Called("ensure_valid_token", api, now, None, tokResp,
                            e.ok, NoException, e.sent)
  /\ UNCHANGED <<tool, args, now, sent, result, exc>>

ApiFetchRooms ==
  /\ pc = "api"
  /\ pc' = "api_returned"
  /\ \E tokResp \in TokenResponsesFor(api, now), roomsResp \in ApiRoomsResponses :
       LET f == fetch_rooms(api, tokResp, roomsResp, now)
       IN /\ api' = f.api
          /\ call' = Called("fetch_rooms", api, now, None, tokResp,
                            f.ok, NoException, f.sent)
  /\ UNCHANGED <<tool, args, now, sent, result, exc>>

ApiSendMessage ==
  /\ pc = "api"
  /\ pc' = "api_returned"
  /\ \E room_id \in {None, "A", "B"} :
       \E tokResp \in TokenResponsesFor(api, now), postResp \in PostResponses :
         LET r == send_message(api, room_id, tokResp, postResp, now)
         IN /\ api' = r.api
            /\ call' = Called("send_message", api, now, room_id, tokResp,
                              r.raised = NoException, r.raised, r.sent)
  /\ UNCHANGED <<tool, args, now, sent, result, exc>>

ApiSendMotion ==
  /\ pc = "api"
  /\ pc' = "api_returned"
  /\ \E room_id \in {None, "A", "B"} :
       \E tokResp \in TokenResponsesFor(api, now), postResp \in PostResponses :
         LET r == send_motion(api, room_id, tokResp, postResp, now)
         IN /\ api' = r.api
            /\ call' = Called("send_motion", api, now, room_id, tokResp,
                              r.raised = NoException, r.raised, r.sent)
  /\ UNCHANGED <<tool, args, now, sent, result, exc>>

ApiGetRoomsInfo ==
  /\ pc = "api"
  /\ pc' = "api_returned"
  /\ \E tokResp \in TokenResponsesFor(api, now), roomsResp \in ApiRoomsResponses :
       LET r == get_rooms_info(api, tokResp, roomsResp, now)
       IN /\ api' = r.api
          /\ call' = Called("get_rooms_info", api, now, None, tokResp,
                            TRUE, NoException, r.sent)
  /\ UNCHANGED <<tool, args, now, sent, result, exc>>

\* The caller has the call's result; the next call can start.
ApiReturn ==
  /\ pc = "api_returned"
  /\ pc' = "api"
  /\ call' = NoCall
  /\ UNCHANGED <<tool, args, api, now, sent, result, exc>>

ApiTick ==
  /\ pc = "api"
  /\ now < MaxTime
  /\ now' = now + 1
  /\ UNCHANGED <<pc, tool, args, api, sent, result, exc, call>>

NextApi ==
  \/ ApiEnsureValidToken \/ ApiFetchRooms
  \/ ApiSendMessage \/ ApiSendMotion \/ ApiGetRoomsInfo \/ ApiReturn \/ ApiTick

SpecApi == InitApi /\ [][NextApi]_vars

\* ------------------------------------------------------------------ claims
\* Predicates in the words of the claims, written without the operators of
\* the model where the claim rests on them.
IsPost(req) == req.kind \in {"message", "motion"}
NoPostIn(wire) == \A i \in 1..Len(wire) : ~IsPost(wire[i])
Refresh == [kind |-> "refresh", room |-> None]
Listing == [kind |-> "rooms", room |-> None]

SameLetter(c, d) ==
  \/ c = d
  \/ {c, d} \in {{"E", "e"}, {"M", "m"}, {"O", "o"}, {"K", "k"}, {"I", "i"}, {"T", "t"}}

ContainsIgnoringCase(s, sub) ==
  \E i \in 0..(Len(s) - Len(sub)) :
    \A j \in 1..Len(sub) : SameLetter(s[i + j], sub[j])

CarriesMarker(name) ==
  \/ ContainsIgnoringCase(name, <<"e", "m", "o">>)
  \/ \E i \in 1..(Len(name) - 1) : name[i] = KE /\ name[i + 1] = KMO

\* The invocation has returned from a sending tool whose required argument
\* was given (and, for the canned motion, named a catalog entry).
SendingDone ==
  /\ pc = "done"
  /\ \/ tool = "bocco_send_message" /\ args.message # Absent
     \/ tool = "bocco_send_motion" /\ args.motion_name \in {"head_shake", "simple_nod"}
     \/ tool = "bocco_custom_motion" /\ args.motion_json # Absent

UnknownMotionDone ==
  /\ pc = "done"
  /\ tool = "bocco_send_motion"
  /\ args.motion_name \notin {"head_shake", "simple_nod", Absent}

C2_NotFoundListsRooms ==
  ( /\ SendingDone
    /\ args.room_name \notin {NoneStr, <<>>}
    /\ \A i \in 1..Len(api.rooms) :
         ~ContainsIgnoringCase(api.rooms[i].name, args.room_name) )
  => /\ result.kind = "room_not_found"
     /\ result.lists_rooms
     /\ result.available = [i \in 1..Len(api.rooms) |-> api.rooms[i].name]
     /\ NoPostIn(sent)

\* C5: whenever the directory holds a fetched sequence, the default room is
\* the first room whose name carries the marker, wherever it stands, else the
\* first room; with an empty sequence (or none fetched) it is unset.
C5_DefaultRoom ==
  /\ api.rooms = <<>> => api.default_room_id = None
  /\ \A i \in 1..Len(api.rooms) :
       ( /\ CarriesMarker(api.rooms[i].name)
         /\ \A j \in 1..(i - 1) : ~CarriesMarker(api.rooms[j].name) )
       => api.default_room_id = api.rooms[i].uuid
  /\ ( /\ api.rooms # <<>>
       /\ \A i \in 1..Len(api.rooms) : ~CarriesMarker(api.rooms[i].name) )
     => api.default_room_id = api.rooms[1].uuid

C5_Witness ==
  /\ Len(api.rooms) = 2
  /\ ~CarriesMarker(api.rooms[1].name)
  /\ CarriesMarker(api.rooms[2].name)
  /\ api.default_room_id = api.rooms[2].uuid
  /\ api.default_room_id # api.rooms[1].uuid

\* C6: when the token refresh that opens an invocation fails (the client
\* then holds no token, since nothing else can have set one), the invocation
\* has sent that one refresh and nothing more, and returns the error text
\* that carries the failure's message.
C6_InitFailureStops ==
  (pc \in {"except", "done"} /\ api.access_token = None) =>
    /\ sent = <<Refresh>>
    /\ pc = "done" => result = [kind |-> "error", msg |-> TokenFailed]

C6_Witness ==
  /\ pc = "done"
  /\ api.access_token = None
  /\ sent = <<Refresh>>
  /\ result.kind = "error"

\* C7: no exception leaves call_tool; an invocation that has returned has
\* returned a text; and an invocation under way can always take its next
\* step, whatever the tool name, the arguments and the responses.
C7_AlwaysReturnsText ==
  /\ pc # "escaped"
  /\ pc = "done" => result.kind # "none"
  /\ pc \in {"aenter", "body", "aexit", "except"} =>
       ENABLED (AEnter \/ Body \/ AExit \/ Except)

C7_Witness ==
  /\ pc = "done"
  /\ tool = "bocco_send_message"
  /\ args.message = Absent
  /\ result = [kind |-> "error", msg |-> "message"]

\* C8: with a non-empty room_name that some fetched room's name contains,
\* compared without regard to case, the invocation does not report the room
\* as missing, and every message or motion post it sends goes to the uuid of
\* the first such room in fetched order; without a room_name every post goes
\* to the default room.
C8_PostsToResolvedRoom ==
  SendingDone =>
    /\ \A i \in 1..Len(api.rooms) :
         ( /\ args.room_name \notin {NoneStr, <<>>}
           /\ ContainsIgnoringCase(api.rooms[i].name, args.room_name)
           /\ \A j \in 1..(i - 1) :
                ~ContainsIgnoringCase(api.rooms[j].name, args.room_name) )
         => /\ result.kind # "room_not_found"
            /\ \A k \in 1..Len(sent) :
                 IsPost(sent[k]) => sent[k].room = api.rooms[i].uuid
    /\ args.room_name = NoneStr =>
         \A k \in 1..Len(sent) : IsPost(sent[k]) => sent[k].room = api.default_room_id

C8_Witness ==
  /\ SendingDone
  /\ tool = "bocco_send_message"
  /\ args.room_name = <<"K", "I", "t">>
  /\ Len(api.rooms) = 2
  /\ api.rooms[1].name = <<"K", "i", "t">>
  /\ api.rooms[2].name = <<"k", "i", "t", "E", "M", "O">>
  /\ api.default_room_id = api.rooms[2].uuid
  /\ sent[Len(sent)] = [kind |-> "message", room |-> api.rooms[1].uuid]
  /\ result.kind = "message_sent"

\* C9: when an invocation has returned, the session it opened is closed.
C9_SessionClosedOnReturn ==
  pc = "done" => api.session # "open"

\* The token, as a call found it, is good beyond the margin / is not.
FoundValid(c) ==
  /\ c.pre.access_token # None
  /\ c.pre.token_expires_at # NoInt
  /\ c.pre.token_expires_at[1] - c.at > 5

FoundStale(c) ==
  \/ c.pre.access_token = None
  \/ c.pre.token_expires_at = NoInt
  \/ c.at > c.pre.token_expires_at[1] - 5

\* C3: one call of ensure_valid_token sends exactly one refresh request when
\* there is no token, no expiry, or the clock is past expiry minus 5 minutes,
\* and none when the token's expiry is more than 5 minutes ahead.
C3_RefreshOnceWhenStale ==
  call.op = "ensure_valid_token" =>
    /\ FoundStale(call) => call.sent = <<Refresh>>
    /\ FoundValid(call) => call.sent = <<>>

C3_Witness ==
  /\ call.op = "ensure_valid_token"
  /\ call.pre.access_token # None
  /\ call.pre.token_expires_at # NoInt
  /\ call.at <= call.pre.token_expires_at[1]
  /\ call.at > call.pre.token_expires_at[1] - 5
  /\ call.sent = <<Refresh>>

\* C4, as stated, for a client that holds a token: send_message with no
\* room_id on a client with no default room raises without having sent any
\* request, whatever the token's state.
C4_RaisesBeforeAnyRequest ==
  ( /\ call.op = "send_message"
    /\ call.room_id = None
    /\ call.pre.default_room_id = None
    /\ call.pre.access_token # None )
  => /\ call.raised # NoException
     /\ call.sent = <<>>

\* C4, amended: such a call raises without sending the message post; the
\* token check comes first, so it sends the one refresh request exactly when
\* the token is absent or within 5 minutes of expiry, and nothing otherwise.
C4_RaisesBeforeThePost ==
  ( /\ call.op = "send_message"
    /\ call.room_id = None
    /\ call.pre.default_room_id = None )
  => /\ call.raised # NoException
     /\ NoPostIn(call.sent)
     /\ FoundStale(call) => call.sent = <<Refresh>>
     /\ ~FoundStale(call) => call.sent = <<>>

C4_Witness ==
  /\ call.op = "send_message"
  /\ call.room_id = None
  /\ call.pre.default_room_id = None
  /\ call.pre.access_token # None
  /\ call.sent = <<Refresh>>
  /\ call.raised = [type |-> "Exception", msg |-> NoTargetRoom]

\* What a refresh response grants, and how it fails, in the claim's words.
Grants(r) == r.kind = "json" /\ r.status = 200 /\ r.access_token # Absent
GrantedFor(r) == IF r.expires_in = NoInt THEN 60 ELSE r.expires_in[1]
Fails(r) == r.kind = "error" \/ (r.kind = "json" /\ r.status # 200)

\* The call was a refresh: get_access_token, as ensure_valid_token runs it.
RefreshCall ==
  /\ call.op = "ensure_valid_token"
  /\ call.sent = <<Refresh>>

\* C10, as stated: a refresh that succeeds stores the returned token and
\* expires_at = now + expires_in; one that gets a non-200 response or a
\* transport failure returns failure and leaves the client holding no token.
C10_FailureLeavesNoToken ==
  RefreshCall =>
    /\ Grants(call.tokResp) =>
         /\ call.ok
         /\ api.access_token = call.tokResp.access_token
         /\ api.token_expires_at = <<call.at + GrantedFor(call.tokResp)>>
    /\ Fails(call.tokResp) =>
         /\ ~call.ok
         /\ api.access_token = None

\* C10, amended: a refresh that fails returns failure and leaves the token
\* and its expiry exactly as they were: a client without a token still has
\* none, and a client that held one from an earlier refresh still holds it.
C10_FailureLeavesTokenAsItWas ==
  RefreshCall =>
    /\ Grants(call.tokResp) =>
         /\ call.ok
         /\ api.access_token = call.tokResp.access_token
         /\ api.token_expires_at = <<call.at + GrantedFor(call.tokResp)>>
    /\ Fails(call.tokResp) =>
         /\ ~call.ok
         /\ api.access_token = call.pre.access_token
         /\ api.token_expires_at = call.pre.token_expires_at

C10_Witness ==
  /\ RefreshCall
  /\ Fails(call.tokResp)
  /\ ~call.ok
  /\ call.pre.access_token # None
  /\ api.access_token = call.pre.access_token
====
